---- MODULE Spec2Model ----
(***************************************************************************)
(* Conway's Game of Life on a bounded grid, as implemented by package game *)
(* (src/game/game.go, src/game/theme.go).  The Game struct is the record   *)
(* held in variable game; Game.Update is modelled phase by phase, in the   *)
(* order of its statements (clock tick, mouse, Space, R, T).               *)
(***************************************************************************)
EXTENDS Integers, FiniteSets, Sequences, TLC

(* ------------------------------ bounds -------------------------------- *)
\* The canvas is CanvasColumns x CanvasRows cells of the minimum size
\* (128 x 96 cells of 5 pixels in the source).
CanvasColumns == 5
CanvasRows == 4
\* Largest ticksPerGeneration the constructor is made to produce.
MaxTPG == 2
\* Cap on the generation counter, which the code lets grow without limit.
MaxGeneration == 2

(* ----------------------------- constants ------------------------------ *)
MinCellSize == 2
ScreenWidth == CanvasColumns * MinCellSize
ScreenHeight == CanvasRows * MinCellSize
maxColumns == ScreenWidth \div MinCellSize
maxRows == ScreenHeight \div MinCellSize

Paused == 0
Running == 1
Dark == 0
Light == 1

Cols == 0 .. (maxColumns - 1)
Rows == 0 .. (maxRows - 1)

\* Go's integer division truncates toward zero.
GoDiv(a, b) == IF a >= 0 THEN a \div b ELSE 0 - ((0 - a) \div b)

\* The zero value of the Game struct.
ZeroGame ==
    [grid |-> [i \in Cols |-> [j \in Rows |-> FALSE]],
     cellSize |-> 0, columns |-> 0, rows |-> 0,
     ticks |-> 0, generation |-> 0, ticksPerGeneration |-> 0,
     state |-> Paused, selectedThemeID |-> Dark]

\* Mutant: the guard rejects the minimum itself.
ValidOptionsStrict(options) == options.CellSize > MinCellSize

\* The guard of NewFromOptions: log.Fatalf ends the process.
ValidOptions(options) == ~(options.CellSize < MinCellSize)

\* NewFromOptions past its guard; tps is the value of ebiten.TPS().
NewFromOptions(options, tps) ==
    [ZeroGame EXCEPT
        !.cellSize = options.CellSize,
        !.columns = GoDiv(ScreenWidth, options.CellSize),
        !.rows = GoDiv(ScreenHeight, options.CellSize),
        !.state = Paused,
        !.ticksPerGeneration = GoDiv(tps, 8),
        !.selectedThemeID = Dark]

(* --------------------------- the Life rule ---------------------------- *)
\* The eight offsets visited by the two loops of countLiveNeighbors.
Offsets == {d \in (-1 .. 1) \X (-1 .. 1) : ~(d[1] = 0 /\ d[2] = 0)}

\* Mutant: neighbour coordinates wrap around the active extent.
countLiveNeighborsWrapped(gm, x, y) ==
    Cardinality({d \in Offsets :
        LET nx == (x + d[1]) % gm.columns
            ny == (y + d[2]) % gm.rows
        IN  gm.grid[nx][ny]})

\* Mutant: the cell itself is not skipped.
countLiveNeighborsSelf(gm, x, y) ==
    Cardinality({d \in (-1 .. 1) \X (-1 .. 1) :
        LET nx == x + d[1]
            ny == y + d[2]
        IN  /\ nx >= 0 /\ nx < gm.columns /\ ny >= 0 /\ ny < gm.rows
            /\ gm.grid[nx][ny]})

countLiveNeighbors(gm, x, y) ==
    Cardinality({d \in Offsets :
        LET nx == x + d[1]
            ny == y + d[2]
        IN  /\ nx >= 0 /\ nx < gm.columns /\ ny >= 0 /\ ny < gm.rows
            /\ gm.grid[nx][ny]})

\* Mutant: a live cell survives only with 3 live neighbours.
nextCellStrict(gm, i, j) == countLiveNeighbors(gm, i, j) = 3

\* The value cycle stores in newGrid[i][j].
nextCell(gm, i, j) ==
    LET count == countLiveNeighbors(gm, i, j)
    IN  IF gm.grid[i][j] THEN count = 2 \/ count = 3 ELSE count = 3

\* Mutant: the grid is updated in place, column by column, so later cells
\* count neighbours that already hold their next value.
RECURSIVE inPlaceFrom(_, _)
inPlaceFrom(gm, k) ==
    IF k >= gm.columns * gm.rows THEN gm
    ELSE LET i == k \div gm.rows
             j == k % gm.rows
         IN  inPlaceFrom([gm EXCEPT !.grid[i][j] = nextCell(gm, i, j)], k + 1)

cycleInPlace(gm) ==
    [inPlaceFrom(gm, 0) EXCEPT !.generation = @ + 1]

\* Mutant: the generation counter is not advanced.
cycleKeepGeneration(gm) ==
    [gm EXCEPT
        !.grid = [i \in Cols |-> [j \in Rows |->
                    IF i < gm.columns /\ j < gm.rows
                    THEN nextCell(gm, i, j) ELSE FALSE]]]

cycle(gm) ==
    [gm EXCEPT
        !.grid = [i \in Cols |-> [j \in Rows |->
                    IF i < gm.columns /\ j < gm.rows
                    THEN nextCell(gm, i, j) ELSE FALSE]],
        !.generation = @ + 1]

(* --------------------------- the controller --------------------------- *)
\* Mutant: the tick counter is kept across a toggle.
toggleStateKeepTicks(gm) ==
    [gm EXCEPT !.state = IF gm.state = Paused THEN Running ELSE Paused]

toggleState(gm) ==
    [gm EXCEPT !.state = IF gm.state = Paused THEN Running ELSE Paused,
               !.ticks = 0]

\* Mutant: a reset also pauses.
resetAndPause(gm) ==
    [gm EXCEPT
        !.grid = [i \in Cols |-> [j \in Rows |->
                    IF i < gm.columns /\ j < gm.rows THEN FALSE
                    ELSE gm.grid[i][j]]],
        !.generation = IF gm.columns > 0 /\ gm.rows > 0 THEN 0 ELSE @,
        !.state = Paused]

\* generation is zeroed inside the inner loop, so only if the loops run.
reset(gm) ==
    [gm EXCEPT
        !.grid = [i \in Cols |-> [j \in Rows |->
                    IF i < gm.columns /\ j < gm.rows THEN FALSE
                    ELSE gm.grid[i][j]]],
        !.generation = IF gm.columns > 0 /\ gm.rows > 0 THEN 0 ELSE @]

\* Mutant: switching the theme also pauses.
switchThemeAndPause(gm) ==
    [gm EXCEPT !.selectedThemeID = IF gm.selectedThemeID = Dark THEN Light ELSE Dark,
               !.state = Paused]

switchTheme(gm) ==
    [gm EXCEPT !.selectedThemeID = IF gm.selectedThemeID = Dark THEN Light ELSE Dark]

\* Update, lines 75-77: the tick counter advances only while Running.
countTick(gm) ==
    IF gm.state = Running THEN [gm EXCEPT !.ticks = @ + 1] ELSE gm

\* Update, line 78: the test that triggers a generation step.
stepDue(gm) == gm.ticks = gm.ticksPerGeneration

\* Update, lines 75-81.
tick(gm) ==
    LET g1 == countTick(gm)
    IN  IF stepDue(g1) THEN cycle([g1 EXCEPT !.ticks = 0]) ELSE g1

\* Mutant: an edit leaves the run state alone.
autoPauseSkipped(gm) == gm

\* Update, lines 83-85.
autoPause(gm) == IF gm.state = Running THEN [gm EXCEPT !.state = Paused] ELSE gm

cellOf(gm, p) == GoDiv(p, gm.cellSize)

\* Whether grid[cellX][cellY] is an element of the array.
InArray(cellX, cellY) == cellX \in Cols /\ cellY \in Rows

\* Update, line 88.
toggleCell(gm, cellX, cellY) ==
    [gm EXCEPT !.grid[cellX][cellY] = ~gm.grid[cellX][cellY]]

(* ------------------------------ inputs -------------------------------- *)
\* Cell sizes offered to the constructor: below the minimum, the minimum,
\* one that does not divide the canvas, and ones larger than the canvas.
CellSizes ==
    {MinCellSize - 1, MinCellSize, MinCellSize + 1,
     ScreenHeight, ScreenHeight + 1, ScreenWidth + 1}

\* Values of ebiten.TPS() at construction (60 unless the host changes it):
\* multiples of 8 and values just below the next multiple.
TPSValues == {8 * k + r : k \in 1 .. MaxTPG, r \in {0, 7}}

\* Cursor positions of a click.  Across: left of the canvas, the first two
\* cells of the minimum size, the last pixel column, right of the canvas.
\* Down: the first two cells of the minimum size and the last pixel row.
CursorXs == {0 - MinCellSize, 0, MinCellSize, ScreenWidth - 1, ScreenWidth}
CursorYs == {0, MinCellSize, ScreenHeight - 1}

(* ------------------------------- state -------------------------------- *)
VARIABLES
    options,    \* the Options given to NewFromOptions
    game,       \* the Game struct
    pc,         \* the statement of Update to run next, or "exited" / "panic"
    pre,        \* observer: game before the last phase
    last,       \* observer: the last phase and its input
    run,        \* observer: clock ticks since the simulation was (re)started
    obs         \* observer: the generation steps taken

vars == <<options, game, pc, pre, last, run, obs>>

\* from: what started the count ("toggle": Space made the state Running,
\* "reset": R was pressed while Running); n: clock ticks since then with no
\* command in between; stale: the tick counter just before that command.
NoRun == [from |-> "none", n |-> 0, stale |-> 0]

Started(from, gm) == [from |-> from, n |-> 0, stale |-> gm.ticks]

Did(op, x, y) == [op |-> op, x |-> x, y |-> y]

\* steps: calls of cycle since R was last pressed (or since construction);
\* stepFrom: the games given to cycle, in order: by the current Update (at
\* most one, kept until the Update has handled the mouse), or, where cycle
\* is stepped on its own, by every Step so far.
NoSteps == [steps |-> 0, stepFrom |-> << >>]

\* The tick counter never exceeds this while ticksPerGeneration is positive.
TicksCap == MaxTPG + 1

Init ==
    /\ options \in [CellSize : CellSizes]
    /\ \E tps \in TPSValues :
          IF ValidOptions(options)
          THEN game = NewFromOptions(options, tps) /\ pc = "tick"
          ELSE game = ZeroGame /\ pc = "exited"
    /\ pre = game
    /\ last = Did("new", 0, 0)
    /\ run = NoRun
    /\ obs = NoSteps

\* Update, lines 75-81.
UpdateTick ==
    /\ pc = "tick"
    /\ stepDue(countTick(game)) => game.generation < MaxGeneration
    /\ countTick(game).ticks <= TicksCap
    /\ game' = tick(game)
    /\ pc' = "mouse"
    /\ pre' = game
    /\ last' = Did("tick", 0, 0)
    /\ run' = IF run.from # "none" /\ run.n < game.ticksPerGeneration
              THEN [run EXCEPT !.n = @ + 1] ELSE NoRun
    /\ obs' = IF stepDue(countTick(game))
              THEN [steps |-> obs.steps + 1, stepFrom |-> <<game>>]
              ELSE [obs EXCEPT !.stepFrom = << >>]
    /\ UNCHANGED options

\* Update, lines 82-89.
UpdateMouse ==
    /\ pc = "mouse"
    /\ \/ /\ game' = game
          /\ pc' = "space"
          /\ last' = Did("noclick", 0, 0)
          /\ run' = run
       \/ \E x \in CursorXs, y \in CursorYs :
            LET g1 == autoPause(game)
                cellX == cellOf(g1, x)
                cellY == cellOf(g1, y)
            IN  /\ IF InArray(cellX, cellY)
                   THEN game' = toggleCell(g1, cellX, cellY) /\ pc' = "space"
                   ELSE game' = g1 /\ pc' = "panic"
                /\ last' = Did("click", x, y)
                /\ run' = NoRun
    /\ pre' = game
    /\ UNCHANGED <<options, obs>>

\* Update, lines 90-92.
UpdateSpace ==
    /\ pc = "space"
    /\ \/ /\ game' = game
          /\ last' = Did("nospace", 0, 0)
          /\ run' = run
       \/ /\ game' = toggleState(game)
          /\ last' = Did("space", 0, 0)
          /\ run' = IF game'.state = Running THEN Started("toggle", game) ELSE NoRun
    /\ pc' = "keyR"
    /\ pre' = game
    /\ obs' = [obs EXCEPT !.stepFrom = << >>]
    /\ UNCHANGED options

\* Update, lines 93-95.
UpdateKeyR ==
    /\ pc = "keyR"
    /\ \/ /\ game' = game
          /\ last' = Did("noR", 0, 0)
          /\ run' = run
          /\ obs' = obs
       \/ /\ game' = reset(game)
          /\ last' = Did("keyR", 0, 0)
          /\ run' = IF game'.state = Running THEN Started("reset", game) ELSE NoRun
          /\ obs' = [obs EXCEPT !.steps = 0]
    /\ pc' = "keyT"
    /\ pre' = game
    /\ UNCHANGED options

\* Update, lines 96-99.
UpdateKeyT ==
    /\ pc = "keyT"
    /\ \/ /\ game' = game
          /\ last' = Did("noT", 0, 0)
          /\ run' = run
       \/ /\ game' = switchTheme(game)
          /\ last' = Did("keyT", 0, 0)
          /\ run' = NoRun
    /\ pc' = "tick"
    /\ pre' = game
    /\ UNCHANGED <<options, obs>>

Next == UpdateTick \/ UpdateMouse \/ UpdateSpace \/ UpdateKeyR \/ UpdateKeyT

Spec == Init /\ [][Next]_vars

\* The same program constructed while ebiten.TPS() is below 8, where
\* ebiten.TPS() / 8 is 0.
LowTPSValues == 1 .. 7

InitLowTPS ==
    /\ options \in [CellSize : CellSizes]
    /\ \E tps \in LowTPSValues :
          IF ValidOptions(options)
          THEN game = NewFromOptions(options, tps) /\ pc = "tick"
          ELSE game = ZeroGame /\ pc = "exited"
    /\ pre = game
    /\ last = Did("new", 0, 0)
    /\ run = NoRun
    /\ obs = NoSteps

SpecLowTPS == InitLowTPS /\ [][Next]_vars

(* ------------------- the step function on its own --------------------- *)
\* Cells a click inside the canvas can address in game gm.
Reach(gm) ==
    {c \in Cols \X Rows :
        /\ c[1] <= cellOf(gm, ScreenWidth - 1)
        /\ c[2] <= cellOf(gm, ScreenHeight - 1)}

Around(gm, c) ==
    {d \in Reach(gm) :
        /\ d[1] - c[1] \in -1 .. 1
        /\ d[2] - c[2] \in -1 .. 1}

\* Grids whose live cells all lie in one cell's Moore neighbourhood
\* (the cell included): every neighbourhood pattern, at every position.
LifeGrids(gm) ==
    {[i \in Cols |-> [j \in Rows |-> <<i, j>> \in S]] :
        S \in UNION {SUBSET Around(gm, c) : c \in Reach(gm)}}

InitLife ==
    /\ options \in [CellSize : {c \in CellSizes : c >= MinCellSize}]
    /\ \E grid \in LifeGrids(NewFromOptions(options, 8)) :
          game = [NewFromOptions(options, 8) EXCEPT !.grid = grid]
    /\ pc = "cycle"
    /\ pre = game
    /\ last = Did("new", 0, 0)
    /\ run = NoRun
    /\ obs = NoSteps

\* One call of cycle.
Step ==
    /\ pc = "cycle"
    /\ game.generation < MaxGeneration
    /\ game' = cycle(game)
    /\ pre' = game
    /\ last' = Did("cycle", 0, 0)
    /\ obs' = [steps |-> obs.steps + 1, stepFrom |-> Append(obs.stepFrom, game)]
    /\ UNCHANGED <<options, pc, run>>

SpecLife == InitLife /\ [][Step]_vars

(* ------------------------------ claims -------------------------------- *)
\* The active extent of game gm: [0,columns) x [0,rows).
Active(gm) == {c \in Cols \X Rows : c[1] < gm.columns /\ c[2] < gm.rows}

\* The cell addressed by the last click.
ClickedCell == <<cellOf(pre, last.x), cellOf(pre, last.y)>>

\* C1 (cadence gating): once Space has made the state Running, each of the
\* first N-1 clock ticks that follow with no command in between leaves
\* generation unchanged, and the Nth adds exactly 1 to it and leaves the tick
\* counter at 0, N being ticksPerGeneration.
CadenceGating ==
    (last.op = "tick" /\ run.from = "toggle" /\ run.n >= 1) =>
        IF run.n < game.ticksPerGeneration
        THEN game.generation = pre.generation
        ELSE game.generation = pre.generation + 1 /\ game.ticks = 0

\* The Nth tick of a count that began after an edit had paused the game
\* in the middle of the previous count.
CadenceGatingWitness ==
    /\ last.op = "tick" /\ run.from = "toggle"
    /\ run.stale > 0
    /\ game.ticksPerGeneration >= 2
    /\ run.n = game.ticksPerGeneration
    /\ game.generation = pre.generation + 1

\* C2 (edit auto-pause): a click on a cell of the active extent leaves the
\* run state Paused, whether it was Running or Paused, flips that cell and
\* changes no other cell.
EditAutoPause ==
    (last.op = "click" /\ ClickedCell \in Active(pre)) =>
        /\ game.state = Paused
        /\ \A c \in Cols \X Rows :
              game.grid[c[1]][c[2]] =
                 IF c = ClickedCell THEN ~pre.grid[c[1]][c[2]] ELSE pre.grid[c[1]][c[2]]

EditAutoPauseWitness ==
    /\ last.op = "click" /\ ClickedCell \in Active(pre)
    /\ pre.state = Running /\ pre.ticks > 0
    /\ game.state = Paused
    /\ game.grid # pre.grid

\* C3 (reset idempotence), as claimed: after Reset every cell of the active
\* extent is dead and generation is 0, and a second Reset changes nothing.
ResetIdempotence ==
    last.op = "keyR" =>
        /\ \A c \in Active(game) : ~game.grid[c[1]][c[2]]
        /\ game.generation = 0
        /\ reset(game) = game

\* C4 (reset zeroes the tick counter), as claimed: after Reset the tick
\* counter is 0, and after a Reset issued while Running the first N-1 clock
\* ticks leave generation unchanged and the Nth adds 1 to it.
ResetZeroesTicks ==
    /\ last.op = "keyR" => game.ticks = 0
    /\ (last.op = "tick" /\ run.from = "reset" /\ run.n >= 1) =>
          IF run.n < game.ticksPerGeneration
          THEN game.generation = pre.generation
          ELSE game.generation = pre.generation + 1

\* C5 (reset frame): Reset leaves the run state, cellSize, columns, rows and
\* the theme as they were.
ResetFrame ==
    last.op = "keyR" =>
        /\ game.state = pre.state
        /\ game.cellSize = pre.cellSize
        /\ game.columns = pre.columns
        /\ game.rows = pre.rows
        /\ game.selectedThemeID = pre.selectedThemeID

\* A Reset of a Running game with live cells and a Light theme, which did
\* clear the grid and the generation.
ResetFrameWitness ==
    /\ last.op = "keyR"
    /\ pre.state = Running /\ game.state = Running
    /\ pre.selectedThemeID = Light
    /\ pre.generation > 0 /\ game.generation = 0
    /\ game.grid # pre.grid

\* C6 (edit out of bounds), as claimed: a click on a cell outside the active
\* extent fails and changes no cell, and no cell outside the active extent
\* is ever alive.
EditOutOfBounds ==
    /\ (last.op = "click" /\ ClickedCell \notin Active(pre)) =>
          pc = "panic" /\ game.grid = pre.grid
    /\ \A c \in (Cols \X Rows) \ Active(game) : ~game.grid[c[1]][c[2]]

\* C7 (construction validation): a cell size below MinCellSize ends the
\* process with no game constructed; MinCellSize itself is accepted.
ConstructionValidation ==
    /\ options.CellSize < MinCellSize => pc = "exited" /\ game = ZeroGame
    /\ options.CellSize = MinCellSize =>
          pc # "exited" /\ game.cellSize = MinCellSize /\ game.columns = maxColumns

ConstructionValidationWitness ==
    options.CellSize < MinCellSize /\ pc = "exited"

\* C8 (grid extent), as claimed: every constructed game has
\* 0 < columns <= maxColumns and 0 < rows <= maxRows, the quotients of the
\* canvas size by cellSize.
GridExtent ==
    pc # "exited" =>
        /\ 0 < game.columns /\ game.columns <= maxColumns
        /\ 0 < game.rows /\ game.rows <= maxRows
        /\ game.columns = ScreenWidth \div game.cellSize
        /\ game.rows = ScreenHeight \div game.cellSize

\* C9 (simultaneous rule): after a step every active cell is alive exactly
\* if it was alive with 2 or 3 live neighbours, or dead with 3, all counted
\* on the grid as it was before the step.
StepRule ==
    last.op = "cycle" =>
        \A c \in Active(pre) :
            LET old == pre.grid[c[1]][c[2]]
                count == countLiveNeighbors(pre, c[1], c[2])
            IN  game.grid[c[1]][c[2]] =
                   ((old /\ count \in {2, 3}) \/ (~old /\ count = 3))

\* A step in which one cell was born next to a cell that died and a cell
\* that survived.
StepRuleWitness ==
    /\ last.op = "cycle"
    /\ \E b \in Active(pre), d \in Active(pre), s \in Active(pre) :
          /\ ~pre.grid[b[1]][b[2]] /\ game.grid[b[1]][b[2]]
          /\ pre.grid[d[1]][d[2]] /\ ~game.grid[d[1]][d[2]]
          /\ pre.grid[s[1]][s[2]] /\ game.grid[s[1]][s[2]]
          /\ d[1] - b[1] \in -1 .. 1 /\ d[2] - b[2] \in -1 .. 1

IsCorner(gm, c) == c[1] \in {0, gm.columns - 1} /\ c[2] \in {0, gm.rows - 1}

IsEdge(gm, c) == c[1] \in {0, gm.columns - 1} \/ c[2] \in {0, gm.rows - 1}

\* C10 (neighbour boundedness): the live-neighbour count of every active
\* cell is in 0..8, at most 3 for a corner cell and at most 5 for any other
\* edge cell.
NeighborBounds ==
    \A c \in Active(game) :
        LET count == countLiveNeighbors(game, c[1], c[2])
        IN  /\ count \in 0 .. 8
            /\ IsCorner(game, c) => count <= 3
            /\ (IsEdge(game, c) /\ ~IsCorner(game, c)) => count <= 5

\* A grid in which a corner cell has 3 live neighbours, another edge cell
\* 5 and an interior cell 8.
NeighborBoundsWitness ==
    /\ \E c \in Active(game) :
          IsCorner(game, c) /\ countLiveNeighbors(game, c[1], c[2]) = 3
    /\ \E c \in Active(game) :
          IsEdge(game, c) /\ ~IsCorner(game, c)
             /\ countLiveNeighbors(game, c[1], c[2]) = 5
    /\ \E c \in Active(game) :
          ~IsEdge(game, c) /\ countLiveNeighbors(game, c[1], c[2]) = 8

\* The grid whose live cells are exactly those of S.
GridOf(S) == [i \in Cols |-> [j \in Rows |-> <<i, j>> \in S]]

Horizontal(c) == {<<c[1] - 1, c[2]>>, c, <<c[1] + 1, c[2]>>}

Vertical(c) == {<<c[1], c[2] - 1>>, c, <<c[1], c[2] + 1>>}

\* Centres of a horizontal triple that has a dead active cell on each side.
BlinkerCentres(gm) ==
    {c \in Active(gm) :
        /\ c[1] - 2 >= 0 /\ c[1] + 2 <= gm.columns - 1
        /\ c[2] - 1 >= 0 /\ c[2] + 1 <= gm.rows - 1}

\* C11 (blinker): a step turns a horizontal triple with clearance, alone on
\* the grid, into the vertical triple through the same centre, and the step
\* after that turns the vertical triple back into the horizontal one.
BlinkerOscillation ==
    \A c \in BlinkerCentres(game) :
        /\ (Len(obs.stepFrom) = 1 /\ obs.stepFrom[1].grid = GridOf(Horizontal(c)))
              => game.grid = GridOf(Vertical(c))
        /\ (Len(obs.stepFrom) = 2 /\ obs.stepFrom[1].grid = GridOf(Horizontal(c)))
              => /\ obs.stepFrom[2].grid = GridOf(Vertical(c))
                 /\ game.grid = GridOf(Horizontal(c))

\* The second step of a blinker: the horizontal triple is back.
BlinkerOscillationWitness ==
    /\ last.op = "cycle" /\ Len(obs.stepFrom) = 2
    /\ \E c \in BlinkerCentres(game) :
          /\ obs.stepFrom[1].grid = GridOf(Horizontal(c))
          /\ pre.grid = GridOf(Vertical(c))
          /\ game.grid = GridOf(Horizontal(c))

AllDead(gm) == \A c \in Cols \X Rows : ~gm.grid[c[1]][c[2]]

\* C12 (empty grid): a step of an all-dead grid leaves it all-dead and adds
\* 1 to generation.
EmptyStasis ==
    (last.op = "cycle" /\ AllDead(pre)) =>
        AllDead(game) /\ game.generation = pre.generation + 1

\* The second step in a row of an all-dead grid.
EmptyStasisWitness ==
    /\ last.op = "cycle" /\ AllDead(pre) /\ AllDead(game)
    /\ pre.generation = 1 /\ game.generation = 2

Block(c) == {c, <<c[1] + 1, c[2]>>, <<c[1], c[2] + 1>>, <<c[1] + 1, c[2] + 1>>}

\* Top-left cells of a 2x2 block none of whose cells is on an edge.
BlockCorners(gm) ==
    {c \in Active(gm) :
        /\ c[1] >= 1 /\ c[1] + 1 <= gm.columns - 2
        /\ c[2] >= 1 /\ c[2] + 1 <= gm.rows - 2}

\* C13 (block): a step leaves a 2x2 block away from every edge, alone on
\* the grid, exactly as it was.
BlockStability ==
    last.op = "cycle" =>
        \A c \in BlockCorners(pre) :
            pre.grid = GridOf(Block(c)) => game.grid = GridOf(Block(c))

BlockStabilityWitness ==
    /\ last.op = "cycle"
    /\ \E c \in BlockCorners(pre) :
          pre.grid = GridOf(Block(c)) /\ game.grid = GridOf(Block(c))

\* C14 (toggle), as claimed: Space flips the run state and leaves the grid,
\* the generation, the tick counter and the theme as they were.
ToggleIsPureFlip ==
    last.op = "space" =>
        /\ game.state # pre.state
        /\ game.grid = pre.grid
        /\ game.generation = pre.generation
        /\ game.ticks = pre.ticks
        /\ game.selectedThemeID = pre.selectedThemeID

\* C14, amended: Space flips the run state and sets the tick counter to 0;
\* the grid, the generation and the theme are as they were.
ToggleFlipsAndZeroesTicks ==
    last.op = "space" =>
        /\ game.state = (IF pre.state = Paused THEN Running ELSE Paused)
        /\ game.ticks = 0
        /\ game.grid = pre.grid
        /\ game.generation = pre.generation
        /\ game.selectedThemeID = pre.selectedThemeID

\* Space pressed in the middle of a count.
ToggleFlipsAndZeroesTicksWitness ==
    /\ last.op = "space"
    /\ pre.state = Running /\ pre.ticks > 0
    /\ game.state = Paused /\ game.ticks = 0

\* C15 (generation counter), as claimed: generation starts at 0, is never
\* negative, grows by exactly 1 when cycle runs, is set to 0 by Reset and
\* changes in no other way, so it is the number of steps since the last
\* Reset or since construction.
GenerationCounter ==
    /\ game.generation >= 0
    /\ game.generation = obs.steps
    /\ last.op = "new" => game.generation = 0
    /\ last.op = "tick" =>
          game.generation = pre.generation + (IF Len(obs.stepFrom) = 1 THEN 1 ELSE 0)
    /\ last.op = "keyR" => game.generation = 0
    /\ last.op \notin {"new", "tick", "keyR"} => game.generation = pre.generation

\* C16 (tick while Paused), as claimed: a clock tick in a Paused state
\* leaves the tick counter, the generation and every cell as they were.
PausedTickIsNoOp ==
    (last.op = "tick" /\ pre.state = Paused) =>
        /\ game.ticks = pre.ticks
        /\ game.generation = pre.generation
        /\ game.grid = pre.grid

\* C17 (commands before the clock step), as claimed: when an Update makes a
\* generation step and also carries a click, the step is computed from the
\* grid with the clicked cell already flipped.
CommandsBeforeTick ==
    (last.op = "click" /\ pc = "space" /\ Len(obs.stepFrom) = 1) =>
        game.grid =
           cycle(toggleCell(obs.stepFrom[1], ClickedCell[1], ClickedCell[2])).grid

\* C18 (tick counter), as claimed: after every Update the tick counter is
\* at least 0 and below ticksPerGeneration.
TickCounterBelowThreshold ==
    (pc = "tick" /\ last.op # "new") =>
        0 <= game.ticks /\ game.ticks < game.ticksPerGeneration

\* The effect of a click at cursor (x, y) on game gm that does not fail.
clicked(gm, x, y) ==
    toggleCell(autoPause(gm), cellOf(gm, x), cellOf(gm, y))

\* Game gm with the theme selection of game other.
themed(gm, other) == [gm EXCEPT !.selectedThemeID = other.selectedThemeID]

\* C19 (theme): T flips the theme selection and nothing else, and every
\* other operation gives the same result, theme aside, on the game after
\* the switch as on the game before it.
ThemeOnly ==
    /\ last.op = "keyT" =>
          /\ game.selectedThemeID = (IF pre.selectedThemeID = Dark THEN Light ELSE Dark)
          /\ game = [pre EXCEPT !.selectedThemeID = game.selectedThemeID]
    /\ last.op = "keyT" =>
          /\ tick(game) = themed(tick(pre), game)
          /\ toggleState(game) = themed(toggleState(pre), game)
          /\ reset(game) = themed(reset(pre), game)
          /\ \A x \in CursorXs, y \in CursorYs :
                InArray(cellOf(game, x), cellOf(game, y)) =>
                   clicked(game, x, y) = themed(clicked(pre, x, y), game)

\* T pressed in a Running game in the middle of a count, with live cells.
ThemeOnlyWitness ==
    /\ last.op = "keyT"
    /\ pre.selectedThemeID = Dark /\ game.selectedThemeID = Light
    /\ game.state = Running /\ game.ticks > 0
    /\ ~AllDead(game)

====
